---- MODULE Spec2Model ----
(***************************************************************************)
(* Model of the two conversion scripts ERA5-To-SHETRAN.py and              *)
(* ERA5-Land-To-SHETRAN.py.  Both are straight-line programs: a (quoted)   *)
(* download cell, opening the NetCDF dataset, building the hourly          *)
(* reference calendar, resolving the file's time axis against it,          *)
(* resolving the StartTime/EndTime indices, the diagnostic plot, the       *)
(* conversion and the closing of the dataset.  An uncaught exception ends  *)
(* the run at the statement that raised it.                                *)
(***************************************************************************)
EXTENDS Integers, Sequences, FiniteSets, TLC

VARIABLES
    variant,        \* which script runs: "ERA5" or "ERA5Land"
    time,           \* ERA5.variables['time']: the file's time axis (hours)
    pc,             \* position of the script
    retrieved,      \* number of c.retrieve(...) requests performed
    ERA5,           \* the Dataset handle: "unopened", "open", "closed"
    ERA5DateIndex,  \* the reference calendar frame [start, periods]
    Time,           \* the loop variable of the resolver loop
    TimeIndex,      \* list of resolved timestamps
    DfTimeIndex,    \* column 'dateTime' of the frame built from TimeIndex
    StartTime,      \* requested first boundary
    EndTime,        \* requested last boundary
    StartIdx,       \* resolved index of StartTime
    EndIdx,         \* resolved index of EndTime
    plotted,        \* NetCDFPlotter returned normally
    convRows,       \* time rows handed to NetCDFToSHETRAN
    convCalled,     \* NetCDFToSHETRAN was called
    written,        \* NetCDFToSHETRAN returned normally (output file written)
    error,          \* class of the uncaught exception, "none" if none
    failedAt        \* pc of the statement that raised, "none" if none

vars == <<variant, time, pc, retrieved, ERA5, ERA5DateIndex, Time, TimeIndex,
          DfTimeIndex, StartTime, EndTime, StartIdx, EndIdx, plotted, convRows,
          convCalled, written, error, failedAt>>

(***************************************************************************)
(* Bounds of the model.                                                    *)
(***************************************************************************)
MaxLen == 3
NumSamples == 400

(***************************************************************************)
(* String literals of the scripts, as tuples of characters.                *)
(***************************************************************************)
Str1900 == <<"1","9","0","0","-","0","1","-","0","1"," ","0","0",":","0","0",":","0","0">>
Str2022 == <<"2","0","2","2","-","0","1","-","0","1"," ","0","0",":","0","0",":","0","0">>
Str2030 == <<"2","0","3","0","-","0","1","-","0","1"," ","0","0",":","0","0",":","0","0">>
Str2000 == <<"2","0","0","0","-","0","1","-","0","1"," ","0","0",":","0","0",":","0","0">>
Str2010 == <<"2","0","1","0","-","0","1","-","0","1"," ","0","0",":","0","0",":","0","0">>

DigitVal(c) ==
    CASE c = "0" -> 0 [] c = "1" -> 1 [] c = "2" -> 2 [] c = "3" -> 3
      [] c = "4" -> 4 [] c = "5" -> 5 [] c = "6" -> 6 [] c = "7" -> 7
      [] c = "8" -> 8 [] c = "9" -> 9

RECURSIVE Num(_, _, _)
\* the decimal number written in characters from..to of s
Num(s, from, to) ==
    IF to < from THEN 0 ELSE 10 * Num(s, from, to - 1) + DigitVal(s[to])

\* pandas parses 'YYYY-MM-DD hh:mm:ss' into a Timestamp
ParseTimestamp(s) ==
    [year |-> Num(s, 1, 4), month |-> Num(s, 6, 7), day |-> Num(s, 9, 10),
     hour |-> Num(s, 12, 13), minute |-> Num(s, 15, 16), second |-> Num(s, 18, 19)]

(***************************************************************************)
(* pandas Timestamps: an integer count since 1970-01-01 00:00:00 and the   *)
(* proleptic Gregorian fields derived from it by the 400-year-cycle day    *)
(* arithmetic.  pandas keeps int64 nanoseconds; the count is kept here as  *)
(* whole hours h plus the seconds s within the hour, no value of the model *)
(* coming near the int64 limits.                                           *)
(***************************************************************************)
DaysFromCivil(y, m, d) ==
    LET yy  == IF m <= 2 THEN y - 1 ELSE y
        era == yy \div 400
        yoe == yy - era * 400
        mp  == IF m > 2 THEN m - 3 ELSE m + 9
        doy == (153 * mp + 2) \div 5 + d - 1
        doe == yoe * 365 + yoe \div 4 - yoe \div 100 + doy
    IN  era * 146097 + doe - 719468

TimestampValue(ts) ==
    [h |-> DaysFromCivil(ts.year, ts.month, ts.day) * 24 + ts.hour,
     s |-> ts.minute * 60 + ts.second]

\* v + n hours
PlusHours(v, n) == [h |-> v.h + n, s |-> v.s]

\* v <= w
NotAfter(v, w) == v.h < w.h \/ (v.h = w.h /\ v.s <= w.s)

\* the mutant: every fourth year a leap year (1900 included)
JulianCivilFromDays(z) ==
    LET n   == z + 719468 + 2                 \* days since 0000-03-01, Julian count
        yoe == (4 * n + 3) \div 1461
        doy == n - (1461 * yoe) \div 4
        mp  == (5 * doy + 2) \div 153
        d   == doy - (153 * mp + 2) \div 5 + 1
        m   == IF mp < 10 THEN mp + 3 ELSE mp - 9
    IN  [year |-> IF m <= 2 THEN yoe + 1 ELSE yoe, month |-> m, day |-> d]

CivilFromDays(z) ==
    LET n   == z + 719468
        era == n \div 146097
        doe == n - era * 146097
        yoe == (doe - doe \div 1460 + doe \div 36524 - doe \div 146096) \div 365
        doy == doe - (365 * yoe + yoe \div 4 - yoe \div 100)
        mp  == (5 * doy + 2) \div 153
        d   == doy - (153 * mp + 2) \div 5 + 1
        m   == IF mp < 10 THEN mp + 3 ELSE mp - 9
        y   == yoe + era * 400
    IN  [year |-> IF m <= 2 THEN y + 1 ELSE y, month |-> m, day |-> d]

TimestampOf(v) ==
    LET c == CivilFromDays(v.h \div 24)
    IN  [year |-> c.year, month |-> c.month, day |-> c.day,
         hour |-> v.h % 24, minute |-> v.s \div 60, second |-> v.s % 60]

(***************************************************************************)
(* pd.DataFrame(pd.date_range(start, end, freq='H')): rows labelled        *)
(* 0 .. periods-1, row i holding start + i hours; end is included.         *)
(***************************************************************************)
CalendarEnd(v) == IF v = "ERA5" THEN Str2022 ELSE Str2030

DateRangeFrame(start, end) ==
    LET s == TimestampValue(ParseTimestamp(start))
        e == TimestampValue(ParseTimestamp(end))
    IN  [start |-> s,
         periods |-> IF ~NotAfter(s, e) THEN 0
                     ELSE IF e.s >= s.s THEN e.h - s.h + 1 ELSE e.h - s.h]

\* the mutant: row i holds start + (i + 1) hours
FrameRowShifted(frame, i) == TimestampOf(PlusHours(frame.start, i + 1))

FrameRow(frame, i) == TimestampOf(PlusHours(frame.start, i))

\* the mutant: positional lookup, a negative label counts from the end
HasLabelPositional(frame, label) == label >= 0 - frame.periods /\ label < frame.periods

\* ERA5DateIndex.loc[label]: the label must be one of the RangeIndex, else KeyError
HasLabel(frame, label) == label >= 0 /\ label < frame.periods

\* ERA5DateIndex.loc[label][0]: the first column of the row labelled label
Loc(frame, label) == FrameRow(frame, label)

(***************************************************************************)
(* DfTimeIndex.index[DfTimeIndex['dateTime'] == x].tolist(): the 0-based   *)
(* labels of the rows equal to x, in order.                                *)
(***************************************************************************)
RECURSIVE MatchesFromOneBased(_, _, _)
\* the mutant: 1-based labels
MatchesFromOneBased(col, x, i) ==
    IF i > Len(col) THEN <<>>
    ELSE IF col[i] = x THEN <<i>> \o MatchesFromOneBased(col, x, i + 1)
         ELSE MatchesFromOneBased(col, x, i + 1)

RECURSIVE MatchesFrom(_, _, _)
MatchesFrom(col, x, i) ==
    IF i > Len(col) THEN <<>>
    ELSE IF col[i] = x THEN <<i - 1>> \o MatchesFrom(col, x, i + 1)
         ELSE MatchesFrom(col, x, i + 1)

RECURSIVE NotBeforeFrom(_, _, _)
NotBeforeFrom(col, x, i) ==
    IF i > Len(col) THEN <<>>
    ELSE IF NotAfter(TimestampValue(x), TimestampValue(col[i]))
         THEN <<i - 1>> \o NotBeforeFrom(col, x, i + 1)
         ELSE NotBeforeFrom(col, x, i + 1)

\* the mutant: rows at or after x (the next timestamp stands in for a missing one)
MatchingLabelsNearest(col, x) == NotBeforeFrom(col, x, 1)

MatchingLabels(col, x) == MatchesFrom(col, x, 1)

\* the comparison value of a boundary: a str is parsed, a Timestamp is itself
AsTimestamp(v, x) == IF v = "ERA5" THEN ParseTimestamp(x) ELSE x

Unbound == 0 - 1

(***************************************************************************)
(* Inputs: the time axis of the file.                                      *)
(***************************************************************************)
SpecialTimes ==
    {0 - 1, 876576, 876600, 964248, 1069440, 1069441, 1139568, 1139569}

SampleStarts ==
    {24 * (119 * k) + 23 : k \in 0 .. NumSamples - 1}
        \cup {1415, 877991, 876574, 1069438, 1139566}

RegularAxis(t0, step, n) == [i \in 1 .. n |-> t0 + step * (i - 1)]

AxisInputs ==
    UNION {[1 .. n -> SpecialTimes] : n \in 0 .. MaxLen}
        \cup {RegularAxis(t0, step, n) :
                 t0 \in SampleStarts, step \in {1, 24}, n \in 1 .. MaxLen}

Init ==
    /\ variant \in {"ERA5", "ERA5Land"}
    /\ time \in AxisInputs
    /\ pc = "download"
    /\ retrieved = 0
    /\ ERA5 = "unopened"
    /\ ERA5DateIndex = [start |-> [h |-> 0, s |-> 0], periods |-> 0]
    /\ Time = 0
    /\ TimeIndex = <<>>
    /\ DfTimeIndex = <<>>
    /\ StartTime = <<>>
    /\ EndTime = <<>>
    /\ StartIdx = Unbound
    /\ EndIdx = Unbound
    /\ plotted = FALSE
    /\ convRows = 0
    /\ convCalled = FALSE
    /\ written = FALSE
    /\ error = "none"
    /\ failedAt = "none"

\* an uncaught exception of class e at the current statement ends the run
Raise(e) == pc' = "failed" /\ error' = e /\ failedAt' = pc

NoRaise == UNCHANGED <<error, failedAt>>

\* the download cell: a triple-quoted string literal, evaluated and dropped
DownloadCell ==
    /\ pc = "download"
    /\ pc' = "open"
    /\ UNCHANGED <<variant, time, retrieved, ERA5, ERA5DateIndex, Time, TimeIndex,
                   DfTimeIndex, StartTime, EndTime, StartIdx, EndIdx, plotted,
                   convRows, convCalled, written, error, failedAt>>

\* ERA5 = Dataset(DirectoryIn + FileNameIn + ExtIn)
OpenDataset ==
    /\ pc = "open"
    /\ \E ok \in BOOLEAN :
          IF ok THEN ERA5' = "open" /\ pc' = "calendar" /\ NoRaise
          ELSE Raise("OSError") /\ UNCHANGED ERA5
    /\ UNCHANGED <<variant, time, retrieved, ERA5DateIndex, Time, TimeIndex,
                   DfTimeIndex, StartTime, EndTime, StartIdx, EndIdx, plotted,
                   convRows, convCalled, written>>

\* ERA5DateIndex = pd.DataFrame(pd.date_range(...)); TimeIndex = []
BuildDateIndex ==
    /\ pc = "calendar"
    /\ ERA5DateIndex' = DateRangeFrame(Str1900, CalendarEnd(variant))
    /\ TimeIndex' = <<>>
    /\ Time' = 0
    /\ pc' = "loop"
    /\ UNCHANGED <<variant, time, retrieved, ERA5, DfTimeIndex, StartTime, EndTime,
                   StartIdx, EndIdx, plotted, convRows, convCalled, written,
                   error, failedAt>>

\* one pass of: for Time in range(len(time)): TimeIndex.append(ERA5DateIndex.loc[time[Time]][0])
ResolveStep ==
    /\ pc = "loop"
    /\ Time < Len(time)
    /\ IF HasLabel(ERA5DateIndex, time[Time + 1])
       THEN /\ TimeIndex' = Append(TimeIndex, Loc(ERA5DateIndex, time[Time + 1]))
            /\ Time' = Time + 1
            /\ UNCHANGED pc
            /\ NoRaise
       ELSE /\ Raise("KeyError")
            /\ UNCHANGED <<TimeIndex, Time>>
    /\ UNCHANGED <<variant, time, retrieved, ERA5, ERA5DateIndex, DfTimeIndex,
                   StartTime, EndTime, StartIdx, EndIdx, plotted, convRows,
                   convCalled, written>>

\* the loop is exhausted; DfTimeIndex = pd.DataFrame(data=TimeIndex, columns=['dateTime'])
BuildDfTimeIndex ==
    /\ pc = "loop"
    /\ Time = Len(time)
    /\ DfTimeIndex' = TimeIndex
    /\ pc' = "bounds"
    /\ UNCHANGED <<variant, time, retrieved, ERA5, ERA5DateIndex, Time, TimeIndex,
                   StartTime, EndTime, StartIdx, EndIdx, plotted, convRows,
                   convCalled, written, error, failedAt>>

\* the mutant: EndTime taken from the first entry
LastEntryIsFirst(l) == l[1]

\* TimeIndex[-1]
LastEntry(l) == l[Len(l)]

\* StartTime = ...; EndTime = ...
AssignBounds ==
    /\ pc = "bounds"
    /\ IF variant = "ERA5"
       THEN /\ StartTime' = Str2000
            /\ EndTime' = Str2010
            /\ pc' = "startIdx"
            /\ NoRaise
       ELSE IF TimeIndex = <<>>
            THEN /\ Raise("IndexError")
                 /\ UNCHANGED <<StartTime, EndTime>>
            ELSE /\ StartTime' = TimeIndex[1]
                 /\ EndTime' = LastEntry(TimeIndex)
                 /\ pc' = "startIdx"
                 /\ NoRaise
    /\ UNCHANGED <<variant, time, retrieved, ERA5, ERA5DateIndex, Time, TimeIndex,
                   DfTimeIndex, StartIdx, EndIdx, plotted, convRows, convCalled,
                   written>>

\* StartIdx = DfTimeIndex.index[DfTimeIndex['dateTime']==StartTime].tolist()[0]
ResolveStartIdx ==
    /\ pc = "startIdx"
    /\ LET l == MatchingLabels(DfTimeIndex, AsTimestamp(variant, StartTime))
       IN  IF l = <<>>
           THEN Raise("IndexError") /\ UNCHANGED StartIdx
           ELSE StartIdx' = l[1] /\ pc' = "endIdx" /\ NoRaise
    /\ UNCHANGED <<variant, time, retrieved, ERA5, ERA5DateIndex, Time, TimeIndex,
                   DfTimeIndex, StartTime, EndTime, EndIdx, plotted, convRows,
                   convCalled, written>>

\* EndIdx = DfTimeIndex.index[DfTimeIndex['dateTime']==EndTime].tolist()[0]
ResolveEndIdx ==
    /\ pc = "endIdx"
    /\ LET l == MatchingLabels(DfTimeIndex, AsTimestamp(variant, EndTime))
       IN  IF l = <<>>
           THEN Raise("IndexError") /\ UNCHANGED EndIdx
           ELSE EndIdx' = l[1] /\ pc' = "plot" /\ NoRaise
    /\ UNCHANGED <<variant, time, retrieved, ERA5, ERA5DateIndex, Time, TimeIndex,
                   DfTimeIndex, StartTime, EndTime, StartIdx, plotted, convRows,
                   convCalled, written>>

\* the mutant: a failing plot is skipped and the script goes on
NetCDFPlotterCallIsolated ==
    /\ pc = "plot"
    /\ \E ok \in BOOLEAN :
          IF ok THEN plotted' = TRUE /\ pc' = "convert" /\ NoRaise
          ELSE /\ pc' = "convert"
               /\ error' = "PlotterError"
               /\ failedAt' = pc
               /\ UNCHANGED plotted
    /\ UNCHANGED <<variant, time, retrieved, ERA5, ERA5DateIndex, Time, TimeIndex,
                   DfTimeIndex, StartTime, EndTime, StartIdx, EndIdx, convRows,
                   convCalled, written>>

\* NetCDFPlotter(Variable=..., Data=ERA5, ...): returns, or raises
NetCDFPlotterCall ==
    /\ pc = "plot"
    /\ \E ok \in BOOLEAN :
          IF ok THEN plotted' = TRUE /\ pc' = "convert" /\ NoRaise
          ELSE Raise("PlotterError") /\ UNCHANGED plotted
    /\ UNCHANGED <<variant, time, retrieved, ERA5, ERA5DateIndex, Time, TimeIndex,
                   DfTimeIndex, StartTime, EndTime, StartIdx, EndIdx, convRows,
                   convCalled, written>>

\* NetCDFToSHETRAN(Data=ERA5, ...[, Dates=DfTimeIndex['dateTime']]): the whole
\* dataset (and, in ERA5-Land, the whole dateTime column) is handed over;
\* StartIdx and EndIdx are not among the arguments
NetCDFToSHETRANCall ==
    /\ pc = "convert"
    /\ convCalled' = TRUE
    /\ convRows' = IF variant = "ERA5" THEN Len(time) ELSE Len(DfTimeIndex)
    /\ \E ok \in BOOLEAN :
          IF ok THEN written' = TRUE /\ pc' = "close" /\ NoRaise
          ELSE Raise("ConverterError") /\ UNCHANGED written
    /\ UNCHANGED <<variant, time, retrieved, ERA5, ERA5DateIndex, Time, TimeIndex,
                   DfTimeIndex, StartTime, EndTime, StartIdx, EndIdx, plotted>>

\* the mutant: the handle is left as it is
CloseDatasetNoop ==
    /\ pc = "close"
    /\ pc' = "done"
    /\ UNCHANGED <<variant, time, retrieved, ERA5, ERA5DateIndex, Time, TimeIndex,
                   DfTimeIndex, StartTime, EndTime, StartIdx, EndIdx, plotted,
                   convRows, convCalled, written, error, failedAt>>

\* ERA5.close()
CloseDataset ==
    /\ pc = "close"
    /\ ERA5' = "closed"
    /\ pc' = "done"
    /\ UNCHANGED <<variant, time, retrieved, ERA5DateIndex, Time, TimeIndex,
                   DfTimeIndex, StartTime, EndTime, StartIdx, EndIdx, plotted,
                   convRows, convCalled, written, error, failedAt>>

Next ==
    \/ DownloadCell
    \/ OpenDataset
    \/ BuildDateIndex
    \/ ResolveStep
    \/ BuildDfTimeIndex
    \/ AssignBounds
    \/ ResolveStartIdx
    \/ ResolveEndIdx
    \/ NetCDFPlotterCall
    \/ NetCDFToSHETRANCall
    \/ CloseDataset

Spec == Init /\ [][Next]_vars

(***************************************************************************)
(* The Gregorian calendar, counted forward from 1900-01-01 by adding up    *)
(* the lengths of the years and months gone by: the reference the resolved *)
(* timestamps are compared with.                                           *)
(***************************************************************************)
IsLeapYear(y) == (y % 4 = 0 /\ y % 100 # 0) \/ y % 400 = 0

DaysInMonth(y, m) ==
    IF m = 2 THEN (IF IsLeapYear(y) THEN 29 ELSE 28)
    ELSE IF m \in {4, 6, 9, 11} THEN 30 ELSE 31

\* the days of the years 1900 .. y-1: 365 each, and one more for each leap year
DaysBeforeYear(y) ==
    365 * (y - 1900) + Cardinality({k \in 1900 .. y - 1 : IsLeapYear(k)})

RECURSIVE DaysBeforeMonth(_, _)
DaysBeforeMonth(y, m) ==
    IF m <= 1 THEN 0 ELSE DaysBeforeMonth(y, m - 1) + DaysInMonth(y, m - 1)

ValidTimestamp(ts) ==
    /\ ts.year >= 1900
    /\ ts.month \in 1 .. 12
    /\ ts.day \in 1 .. DaysInMonth(ts.year, ts.month)
    /\ ts.hour \in 0 .. 23
    /\ ts.minute = 0
    /\ ts.second = 0

HoursSince1900(ts) ==
    24 * (DaysBeforeYear(ts.year) + DaysBeforeMonth(ts.year, ts.month) + ts.day - 1)
        + ts.hour

At(y, m, d, h) ==
    [year |-> y, month |-> m, day |-> d, hour |-> h, minute |-> 0, second |-> 0]

\* the last hour of the reference calendar each script is said to build
LastCalendarHour(v) ==
    IF v = "ERA5" THEN HoursSince1900(At(2022, 1, 1, 0))
    ELSE HoursSince1900(At(2030, 1, 1, 0))

StrictlyIncreasing(s) == \A i \in 1 .. Len(s) - 1 : s[i] < s[i + 1]

Present(col, x) == \E i \in 1 .. Len(col) : col[i] = x

\* the statement at position p has been executed (it returned or it raised)
Past(p) ==
    LET order == <<"download", "open", "calendar", "loop", "bounds", "startIdx",
                   "endIdx", "plot", "convert", "close", "done">>
        pos(q) == CHOOSE i \in 1 .. Len(order) : order[i] = q
    IN  IF pc = "failed" THEN pos(failedAt) >= pos(p) ELSE pos(pc) > pos(p)

LookupErrors == {"IndexError", "KeyError"}

(***************************************************************************)
(* C1: every entry of TimeIndex is the Gregorian timestamp 1900-01-01      *)
(* 00:00:00 plus exactly t hours, t being the time-step value at the same  *)
(* position of the file's time axis (leap years counted, 1900 not a leap   *)
(* year), so TimeIndex keeps the order of the time axis.                   *)
(***************************************************************************)
C1_ResolvedTimestamps ==
    /\ Len(TimeIndex) <= Len(time)
    /\ \A i \in 1 .. Len(TimeIndex) :
          /\ ValidTimestamp(TimeIndex[i])
          /\ HoursSince1900(TimeIndex[i]) = time[i]

\* a three-step axis crossing into the leap day of 2000 has been resolved
C1_Witness ==
    /\ Len(TimeIndex) = 3
    /\ time[1] = 877991
    /\ TimeIndex[2] = At(2000, 2, 29, 0)

(***************************************************************************)
(* C2 as stated: the time-step value 876600 resolves to 2000-01-01         *)
(* 00:00:00.                                                               *)
(***************************************************************************)
C2_Original ==
    \A i \in 1 .. Len(TimeIndex) : time[i] = 876600 => TimeIndex[i] = At(2000, 1, 1, 0)

(***************************************************************************)
(* C2 amended: the time-step value 876600 resolves to 2000-01-02 00:00:00; *)
(* 2000-01-01 00:00:00 is the entry for the time-step value 876576.        *)
(***************************************************************************)
C2_Amended ==
    \A i \in 1 .. Len(TimeIndex) :
        /\ time[i] = 876600 => TimeIndex[i] = At(2000, 1, 2, 0)
        /\ time[i] = 876576 => TimeIndex[i] = At(2000, 1, 1, 0)

C2_Witness == \E i \in 1 .. Len(TimeIndex) : time[i] = 876600

(***************************************************************************)
(* C3: when StartTime (EndTime) is no element of DfTimeIndex['dateTime'],  *)
(* the StartIdx (EndIdx) statement raises a LookupError-class exception    *)
(* and the run stops there with the index unassigned; an assigned index is *)
(* always the position of an entry equal to the requested timestamp, never *)
(* that of a neighbour.                                                    *)
(***************************************************************************)
C3_MissingBoundaryFails ==
    /\ (Past("startIdx") /\ ~Present(DfTimeIndex, AsTimestamp(variant, StartTime)))
          => /\ pc = "failed" /\ failedAt = "startIdx"
             /\ error \in LookupErrors
             /\ StartIdx = Unbound
    /\ (Past("endIdx") /\ ~Present(DfTimeIndex, AsTimestamp(variant, EndTime)))
          => /\ pc = "failed" /\ failedAt = "endIdx"
             /\ error \in LookupErrors
             /\ EndIdx = Unbound
    /\ StartIdx # Unbound
          => /\ StartIdx \in 0 .. Len(DfTimeIndex) - 1
             /\ DfTimeIndex[StartIdx + 1] = AsTimestamp(variant, StartTime)
    /\ EndIdx # Unbound
          => /\ EndIdx \in 0 .. Len(DfTimeIndex) - 1
             /\ DfTimeIndex[EndIdx + 1] = AsTimestamp(variant, EndTime)

\* a file that holds later timestamps but not 2000-01-01 00:00:00
C3_Witness ==
    /\ variant = "ERA5"
    /\ failedAt = "startIdx"
    /\ Len(DfTimeIndex) > 0
    /\ \A i \in 1 .. Len(time) : time[i] > 876576

(***************************************************************************)
(* C4: for a strictly increasing time axis, a boundary that is the         *)
(* timestamp at position k of the resolved sequence is resolved, and to    *)
(* exactly k.                                                              *)
(***************************************************************************)
C4_BoundaryIndex ==
    StrictlyIncreasing(time) =>
        /\ Past("startIdx") =>
              \A k \in 0 .. Len(DfTimeIndex) - 1 :
                  DfTimeIndex[k + 1] = AsTimestamp(variant, StartTime) => StartIdx = k
        /\ Past("endIdx") =>
              \A k \in 0 .. Len(DfTimeIndex) - 1 :
                  DfTimeIndex[k + 1] = AsTimestamp(variant, EndTime) => EndIdx = k

\* [t0, t0+1h, t0+2h] with StartTime = t0+2h
C4_Witness ==
    /\ variant = "ERA5"
    /\ time = <<876574, 876575, 876576>>
    /\ StartIdx = 2

(***************************************************************************)
(* C5 as stated: a run in which NetCDFPlotter raised still calls           *)
(* NetCDFToSHETRAN and writes the output file.                             *)
(***************************************************************************)
C5_Original ==
    (failedAt = "plot" /\ pc \in {"done", "failed"}) => written

(***************************************************************************)
(* C5 amended: NetCDFPlotter is called strictly before NetCDFToSHETRAN and *)
(* gates it: an exception raised inside NetCDFPlotter ends the run, and    *)
(* NetCDFToSHETRAN is called only after NetCDFPlotter has returned.        *)
(***************************************************************************)
C5_Amended ==
    /\ failedAt = "plot" =>
          pc = "failed" /\ error = "PlotterError" /\ ~convCalled /\ ~written
    /\ convCalled => plotted

C5_Witness == failedAt = "plot" /\ ~plotted /\ StartIdx # Unbound /\ EndIdx # Unbound

(***************************************************************************)
(* C6: the number of time rows handed to NetCDFToSHETRAN, and so written   *)
(* by it, is EndIdx - StartIdx + 1.                                        *)
(***************************************************************************)
C6_RowsEqualWindow ==
    convCalled => convRows = EndIdx - StartIdx + 1

(***************************************************************************)
(* C7 as stated: however a run that opened the dataset ends, the dataset   *)
(* has been closed with ERA5.close().                                      *)
(***************************************************************************)
C7_Original ==
    (pc \in {"done", "failed"} /\ failedAt # "open") => ERA5 = "closed"

(***************************************************************************)
(* C7 amended: the dataset is open while the resolver, the plotter and the *)
(* converter run; ERA5.close() is the last statement of a run in which no  *)
(* stage failed, and a run ended by a failing stage leaves the dataset     *)
(* unclosed.                                                               *)
(***************************************************************************)
C7_Amended ==
    /\ pc \in {"calendar", "loop", "bounds", "startIdx", "endIdx", "plot",
               "convert", "close"} => ERA5 = "open"
    /\ pc = "done" => ERA5 = "closed" /\ written
    /\ ERA5 = "closed" => pc = "done"
    /\ (pc = "failed" /\ failedAt # "open") => ERA5 = "open"

C7_Witness == pc = "failed" /\ failedAt = "convert" /\ ERA5 = "open"

(***************************************************************************)
(* C8: in ERA5-To-SHETRAN the retrieval request has been performed by the  *)
(* time the dataset is opened; ERA5-Land-To-SHETRAN performs none.         *)
(***************************************************************************)
C8_RetrievedBeforeOpen ==
    /\ (variant = "ERA5" /\ Past("open")) => retrieved > 0
    /\ variant = "ERA5Land" => retrieved = 0

(***************************************************************************)
(* C9: a run that reaches the plotter or the converter has one TimeIndex   *)
(* entry per time-step; a time-step value outside the reference calendar   *)
(* (negative, or after 2022-01-01 00:00 in ERA5-To-SHETRAN, after          *)
(* 2030-01-01 00:00 in ERA5-Land-To-SHETRAN) makes the resolver loop raise *)
(* a lookup error before anything is plotted or written, and values inside *)
(* the calendar never make it raise.                                       *)
(***************************************************************************)
OutsideCalendar(t) == t < 0 \/ t > LastCalendarHour(variant)

C9_NoSilentTruncation ==
    /\ (Past("endIdx") /\ pc # "failed") \/ plotted \/ convCalled
          => Len(TimeIndex) = Len(time)
    /\ (Past("loop") /\ \E i \in 1 .. Len(time) : OutsideCalendar(time[i]))
          => /\ pc = "failed" /\ failedAt = "loop"
             /\ error \in LookupErrors
             /\ OutsideCalendar(time[Time + 1])
             /\ ~plotted /\ ~convCalled /\ ~written
    /\ failedAt = "loop" => \E i \in 1 .. Len(time) : OutsideCalendar(time[i])

\* the hour after 2022-01-01 00:00, second on the axis of ERA5-To-SHETRAN
C9_Witness ==
    /\ variant = "ERA5"
    /\ failedAt = "loop"
    /\ Len(TimeIndex) = 1
    /\ time[2] = 1069441

(***************************************************************************)
(* C10: in ERA5-Land-To-SHETRAN a non-empty strictly increasing time axis  *)
(* (inside the calendar) resolves to StartIdx = 0 and EndIdx = N - 1, the  *)
(* whole file being handed to the converter; an empty time axis raises an  *)
(* IndexError at the StartTime assignment, before the plotter and the      *)
(* converter are called.                                                   *)
(***************************************************************************)
C10_LandWindow ==
    variant = "ERA5Land" =>
        /\ (StrictlyIncreasing(time) /\ Len(time) > 0 /\ Past("loop")
              /\ failedAt # "loop")
              => /\ failedAt \notin {"bounds", "startIdx", "endIdx"}
                 /\ Past("startIdx") => StartIdx = 0
                 /\ Past("endIdx") => EndIdx = Len(time) - 1
                 /\ convCalled => convRows = EndIdx - StartIdx + 1
        /\ (Len(time) = 0 /\ Past("bounds"))
              => /\ pc = "failed" /\ failedAt = "bounds"
                 /\ error = "IndexError"
                 /\ ~plotted /\ ~convCalled

C10_Witness ==
    /\ variant = "ERA5Land"
    /\ Len(time) = 3
    /\ StartIdx = 0
    /\ EndIdx = 2
    /\ written

====
